---- MODULE Spec2Model ----
(***************************************************************************)
(* Model of the Levolor BLE command transport:                             *)
(*   custom_components/levolor_ble/coordinator.py  LevolorBLECoordinator   *)
(*   custom_components/levolor_ble/const.py        protocol constants      *)
(*   custom_components/levolor_ble/cover.py        LevolorBlindCover       *)
(*   levolor_ble.py                                standalone client       *)
(* Each caller is one asyncio task calling async_send_command on the same  *)
(* coordinator.  A step of a caller is the code between two suspension     *)
(* points; the outcome of every awaited adapter call (connect, write,      *)
(* disconnect) is chosen by the adapter.                                   *)
(***************************************************************************)
EXTENDS Integers, Sequences, FiniteSets, TLC

\* ------------------------------------------------------------------ bounds
\* largest retry_count a single task passes
MaxRetry == 3
\* largest retry_count the two concurrent tasks pass
MaxDuoRetry == 2
\* the retry_count each of the three concurrent tasks passes
MaxTrioRetry == 2

\* --------------------------------------------------------- const.py values
LEVOLOR_DEVICE_NAME == <<"L", "e", "v", "o", "l", "o", "r">>
COMMAND_CHAR_UUID == "ab529201-5310-483a-b4d3-7f1eaa8134a0"
INIT_CHAR_UUID == "ab529101-5310-483a-b4d3-7f1eaa8134a0"
\* the two bytes in the wrong order
INIT_PAYLOAD_swapped == <<250, 136>>
INIT_PAYLOAD == <<136, 250>>
CMD_PREFIX == 241
DEFAULT_RETRY_COUNT == 3
\* seconds in the source (0.3 and 1.0), milliseconds here
COMMAND_DELAY == 300
RETRY_COOLDOWN == 1000
Action == [OPEN |-> 1, CLOSE |-> 2, TILT_OPEN |-> 3, TILT_CLOSE |-> 4,
           FAVORITE |-> 5, STOP |-> 6]

\* -------------------------------------------------- levolor_ble.py values
\* the standalone client carries its own copy of the protocol constants
cli_LEVOLOR_DEVICE_NAME == <<"L", "e", "v", "o", "l", "o", "r">>
cli_COMMAND_CHAR_UUID == "ab529201-5310-483a-b4d3-7f1eaa8134a0"
cli_INIT_CHAR_UUID == "ab529101-5310-483a-b4d3-7f1eaa8134a0"
cli_INIT_PAYLOAD == <<136, 250>>
cli_CMD_PREFIX == 241
\* asyncio.sleep(0.5), in milliseconds
cli_COMMAND_DELAY == 500
cli_Action == [OPEN |-> 1, CLOSE |-> 2, STOP |-> 6, TILT_OPEN |-> 3,
               TILT_CLOSE |-> 4, FAVORITE |-> 5]

\* ------------------------------------------------------------- input sets
Callers == {"t1", "t2", "t3"}
Solo == "t1"
Pair == {"t1", "t2"}
Actions == {Action.OPEN, Action.STOP}
\* every member of the Action enum
AllActions == {Action.OPEN, Action.CLOSE, Action.TILT_OPEN, Action.TILT_CLOSE,
               Action.FAVORITE, Action.STOP}
\* 1 and 6 are the ends of the documented range, 0 and 7 lie just outside
\* it, 256 does not fit a byte
Channels == {0, 1, 6, 7, 256}
RetryCounts == 1..MaxRetry
\* the calls the two concurrent tasks make
DuoActions == {Action.OPEN}
DuoChannels == {1}
DuoRetryCounts == 1..MaxDuoRetry
TrioRetryCounts == {MaxTrioRetry}
ValidChannels == 1..6
\* the command lines of the standalone client: every command but scan, a
\* channel inside or just outside 1..6, with or without --address
CliActions == {cli_Action.OPEN, cli_Action.CLOSE, cli_Action.STOP,
               cli_Action.TILT_OPEN, cli_Action.TILT_CLOSE,
               cli_Action.FAVORITE}
CliChannels == {0, 1, 6, 7}

\* the exceptions an awaited bleak call raises
AdapterErrors == {"BleakError", "TimeoutError"}
Outcomes == {"ok"} \cup AdapterErrors

\* ------------------------------------------------------ the radio's world
ADDR_A == "AA:BB:CC:DD:EE:FF"
ADDR_B == "11:22:33:44:55:66"
ADDR_C == "77:88:99:00:AA:BB"
NAME_REMOTE == LEVOLOR_DEVICE_NAME \o <<" ", "R", "e", "m", "o", "t", "e">>
NAME_LOWER == <<"l", "e", "v", "o", "l", "o", "r">>
NAME_LAMP == <<"L", "a", "m", "p">>
NAME_NONE == <<>>
NoDevice == [address |-> "None", name |-> NAME_NONE]
Dev(a, n) == [address |-> a, name |-> n]

CliAddresses == {"None", ADDR_A}

\* _attr_current_cover_position = None
NoPosition == -1
\* the channel the cover entity was configured with
COVER_CHANNEL == 1
\* the positions a restored state or a set_cover_position call can carry
RestoredPositions == {NoPosition, 0, 50, 100}
SetPositions == {0, 49, 50, 100}

\* what async_discovered_service_info can return, in list order
Worlds == { <<>>,
            <<Dev(ADDR_A, NAME_REMOTE)>>,
            <<Dev(ADDR_C, NAME_LAMP), Dev(ADDR_B, NAME_REMOTE)>>,
            <<Dev(ADDR_B, NAME_NONE), Dev(ADDR_C, NAME_LOWER)>>,
            <<Dev(ADDR_B, NAME_REMOTE), Dev(ADDR_A, NAME_REMOTE)>> }

VARIABLES
    address,        \* coordinator.address
    lock,           \* coordinator._lock: [locked, waiters]
    discoveries,    \* the connectable devices the host currently sees
    pc,             \* position of each caller
    action,         \* arguments of the call in flight
    channel,
    retry_count,
    attempt,        \* loop variable of async_send_command
    ble_device,     \* local of _send_command_once
    client_open,    \* the BleakClient context of the caller is entered
    exc,            \* exception unwinding through the BleakClient context
    result,         \* what the call in flight / the last call gave its caller
    log,            \* adapter calls of the attempt in flight, in order
    n_resolve,      \* resolve steps of the call in flight
    n_connect,      \* connect calls of the call in flight
    n_connect_ok,   \* ... of which succeeded
    n_cmd_ok,       \* successful command-frame writes of the call in flight
    n_disconnect_err, \* disconnects of the call in flight that raised
    n_cooldown,     \* cooldown sleeps of the call in flight
    healed,         \* address last stored by _find_device_by_name, or "None"
    cli_pc,         \* position of the standalone client's main()
    cli_address,    \* LevolorRemote.address, "None" until known
    cli_action,     \* the command and the channel of the command line
    cli_channel,
    cli_connected,  \* LevolorRemote.client.is_connected
    cli_result,     \* what connect()/send_command() returned, or the
                    \* exception on its way out of main()
    cli_log,        \* adapter calls of the run, in order
    cover_added,    \* the cover entity was added to Home Assistant
    cover_cmd,      \* the cover handler each caller is inside, or "none"
    is_opening,     \* LevolorBlindCover._attr_is_opening
    is_closing,     \* ._attr_is_closing
    current_cover_position, \* ._attr_current_cover_position
    is_closed,      \* ._attr_is_closed: "None", "True" or "False"
    available       \* ._attr_available

coordVars == <<address, lock>>
frameVars == <<action, channel, retry_count, attempt, ble_device>>
spyVars == <<log, n_resolve, n_connect, n_connect_ok, n_cmd_ok,
            n_disconnect_err, n_cooldown, healed>>
haVars == <<coordVars, pc, frameVars, client_open, exc, result, spyVars>>
cliVars == <<cli_pc, cli_address, cli_action, cli_channel, cli_connected,
            cli_result, cli_log>>
coverVars == <<cover_added, cover_cmd, is_opening, is_closing,
              current_cover_position, is_closed, available>>
vars == <<address, lock, discoveries, pc, action, channel, retry_count,
          attempt, ble_device, client_open, exc, result, log, n_resolve,
          n_connect, n_connect_ok, n_cmd_ok, n_disconnect_err, n_cooldown,
          healed, cliVars, coverVars>>

\* ---------------------------------------------------------------- helpers
\* one observed adapter call
\* op: resolve | connect | write | sleep | disconnect
\* target: a device address or a characteristic uuid ("-" for sleep)
\* mode: how a resolve found the device (address | name | none), the
\*       response argument of a write (default | True | False), else "-"
\* res: "ok", or the exception the call raised ("NotFound" for a resolve
\*      that found nothing)
Ev(op, target, data, mode, res) ==
    [op |-> op, target |-> target, data |-> data, mode |-> mode, res |-> res]

\* Python's "sub in s" on strings
Contains(s, sub) ==
    \E i \in 0..(Len(s) - Len(sub)) :
        \A k \in 1..Len(sub) : s[i + k] = sub[k]

\* Python truthiness of a str
Truthy(s) == Len(s) > 0

\* bluetooth.async_ble_device_from_address(hass, address, connectable=True)
async_ble_device_from_address(addr) ==
    IF \E i \in 1..Len(discoveries) : discoveries[i].address = addr
    THEN LET i == CHOOSE j \in 1..Len(discoveries) :
                      /\ discoveries[j].address = addr
                      /\ \A k \in 1..(j - 1) : discoveries[k].address # addr
         IN discoveries[i]
    ELSE NoDevice

\* a filter that takes any named device
IsLevolor_any(d) == Truthy(d.name)

\* the discovery filter of _find_device_by_name
IsLevolor(d) == Truthy(d.name) /\ Contains(d.name, LEVOLOR_DEVICE_NAME)

\* _find_device_by_name: the first discovery that passes the filter
find_device_by_name ==
    IF \E i \in 1..Len(discoveries) : IsLevolor(discoveries[i])
    THEN LET i == CHOOSE j \in 1..Len(discoveries) :
                      /\ IsLevolor(discoveries[j])
                      /\ \A k \in 1..(j - 1) : ~IsLevolor(discoveries[k])
         IN discoveries[i]
    ELSE NoDevice

\* bytes([CMD_PREFIX, action, channel])
IsByte(b) == b \in 0..255
\* a frame with the action and the channel in each other's place
Command_swapped(a, ch) == <<CMD_PREFIX, ch, a>>
Command(a, ch) == <<CMD_PREFIX, a, ch>>
CommandBuilds(a, ch) == IsByte(CMD_PREFIX) /\ IsByte(a) /\ IsByte(ch)

\* an acquire that never looks at the holder
LockFree_unguarded == TRUE

\* asyncio.Lock.acquire takes the lock at once only when it is free and
\* nobody is queued
LockFree == ~lock.locked /\ lock.waiters = <<>>

\* a release that wakes the task that queued last
NextWaiter_lifo == lock.waiters[Len(lock.waiters)]

\* asyncio.Lock.release wakes the first task of its waiters queue
NextWaiter == Head(lock.waiters)

\* except (BleakError, TimeoutError)
Caught(e) == e \in {"BleakError", "TimeoutError"}

\* no fallback at all
FallsBack_never(e) == FALSE

\* except BleakError around the acknowledged write
FallsBack(e) == e = "BleakError"

\* BleakClient.__aexit__ runs on every way out of the with-block and ends
\* the connection; a hand-written close that only runs on the success path
OpenAfterExit_leak(c) == exc[c] # "none"
OpenAfterExit(c) == FALSE

\* closing straight after the write
AfterCommandWritten_no_settle == "disconnect"

\* after the command frame is written the code sleeps COMMAND_DELAY
AfterCommandWritten == "settle"

\* a loop that does not return on success and goes on to the next iteration
PcAfterSuccess_continues(c) ==
    IF attempt[c] < retry_count[c] - 1 THEN "resolve" ELSE "ret"

\* if success: return True
PcAfterSuccess(c) == "ret"

\* a name search that returns the device and forgets to store its address
AddressAfterResolve_forgets(by_name) == address

\* self.address = discovery.address, only when the name search found one
AddressAfterResolve(by_name) ==
    IF by_name # NoDevice THEN by_name.address ELSE address

\* a retry loop that runs one iteration too many
PcAfterRaise_one_more(c, e) ==
    IF Caught(e) /\ attempt[c] < retry_count[c] THEN "cooldown" ELSE "ret"

\* where an exception leaving _send_command_once takes async_send_command
PcAfterRaise(c, e) ==
    IF Caught(e) /\ attempt[c] < retry_count[c] - 1 THEN "cooldown" ELSE "ret"
ResultAfterRaise(c, e) ==
    IF Caught(e)
    THEN IF attempt[c] < retry_count[c] - 1 THEN "none" ELSE "False"
    ELSE e

\* ------------------------------------------------------------------- Init
Init ==
    /\ address = ADDR_A
    /\ lock = [locked |-> FALSE, waiters |-> <<>>]
    /\ discoveries \in Worlds
    /\ pc = [c \in Callers |-> "idle"]
    /\ action = [c \in Callers |-> 0]
    /\ channel = [c \in Callers |-> 0]
    /\ retry_count = [c \in Callers |-> 0]
    /\ attempt = [c \in Callers |-> 0]
    /\ ble_device = [c \in Callers |-> NoDevice]
    /\ client_open = [c \in Callers |-> FALSE]
    /\ exc = [c \in Callers |-> "none"]
    /\ result = [c \in Callers |-> "none"]
    /\ log = [c \in Callers |-> <<>>]
    /\ n_resolve = [c \in Callers |-> 0]
    /\ n_connect = [c \in Callers |-> 0]
    /\ n_connect_ok = [c \in Callers |-> 0]
    /\ n_cmd_ok = [c \in Callers |-> 0]
    /\ n_disconnect_err = [c \in Callers |-> 0]
    /\ n_cooldown = [c \in Callers |-> 0]
    /\ healed = "None"
    /\ cli_pc = "idle"
    /\ cli_address = "None"
    /\ cli_action = 0
    /\ cli_channel = 0
    /\ cli_connected = FALSE
    /\ cli_result = "none"
    /\ cli_log = <<>>
    /\ cover_added = FALSE
    /\ cover_cmd = [c \in Callers |-> "none"]
    /\ is_opening = FALSE
    /\ is_closing = FALSE
    /\ current_cover_position = NoPosition
    /\ is_closed = "None"
    /\ available = TRUE

\* ---------------------------------------------------------------- actions
\* async_send_command is called: the task runs up to the lock and either
\* takes it or queues behind the holder
SendCommandEntry(c, a, ch, r) ==
    /\ pc[c] \in {"idle", "done"}
    /\ action' = [action EXCEPT ![c] = a]
    /\ channel' = [channel EXCEPT ![c] = ch]
    /\ retry_count' = [retry_count EXCEPT ![c] = r]
    /\ attempt' = [attempt EXCEPT ![c] = 0]
    /\ result' = [result EXCEPT ![c] = "none"]
    /\ IF LockFree
       THEN /\ lock' = [lock EXCEPT !.locked = TRUE]
            /\ pc' = [pc EXCEPT ![c] = "resolve"]
       ELSE /\ lock' = [lock EXCEPT !.waiters = Append(@, c)]
            /\ pc' = [pc EXCEPT ![c] = "waiting"]
    /\ UNCHANGED cliVars
    /\ UNCHANGED <<address, discoveries, ble_device, client_open, exc, spyVars>>

\* async_send_command called by anything but the cover entity
async_send_command(c, a, ch, r) ==
    /\ SendCommandEntry(c, a, ch, r)
    /\ UNCHANGED coverVars

\* the first queued task is woken by release and takes the lock
LockWakeup(c) ==
    /\ pc[c] = "waiting"
    /\ ~lock.locked
    /\ lock.waiters # <<>>
    /\ NextWaiter = c
    /\ lock' = [locked |-> TRUE,
                waiters |-> SelectSeq(lock.waiters, LAMBDA w : w # c)]
    /\ pc' = [pc EXCEPT ![c] = "resolve"]
    /\ UNCHANGED <<cliVars, coverVars>>
    /\ UNCHANGED <<address, discoveries, frameVars, client_open, exc, result,
                   spyVars>>

\* _send_command_once up to the BleakClient context: look the stored
\* address up, fall back to _find_device_by_name, raise when both fail
Resolve(c) ==
    /\ pc[c] = "resolve"
    /\ LET by_addr == async_ble_device_from_address(address)
           by_name == IF by_addr = NoDevice THEN find_device_by_name
                      ELSE NoDevice
           dev == IF by_addr # NoDevice THEN by_addr ELSE by_name
           how == IF by_addr # NoDevice THEN "address"
                  ELSE IF by_name # NoDevice THEN "name" ELSE "none"
       IN /\ address' = AddressAfterResolve(by_name)
          /\ healed' = IF by_name # NoDevice THEN by_name.address ELSE healed
          /\ ble_device' = [ble_device EXCEPT ![c] = dev]
          /\ log' = [log EXCEPT ![c] =
                        <<Ev("resolve", address, <<>>, how,
                             IF dev # NoDevice THEN "ok" ELSE "NotFound")>>]
          /\ n_resolve' = [n_resolve EXCEPT ![c] = @ + 1]
          /\ IF dev # NoDevice
             THEN /\ pc' = [pc EXCEPT ![c] = "connect"]
                  /\ UNCHANGED result
             ELSE /\ pc' = [pc EXCEPT ![c] =
                               PcAfterRaise(c, "HomeAssistantError")]
                  /\ result' = [result EXCEPT ![c] =
                               ResultAfterRaise(c, "HomeAssistantError")]
    /\ UNCHANGED <<cliVars, coverVars>>
    /\ UNCHANGED <<lock, discoveries, action, channel, retry_count, attempt,
                   client_open, exc, n_connect, n_connect_ok, n_cmd_ok,
                   n_disconnect_err, n_cooldown>>

\* async with BleakClient(ble_device): __aenter__ connects
Connect(c) ==
    /\ pc[c] = "connect"
    /\ \E o \in Outcomes :
        /\ log' = [log EXCEPT ![c] = Append(@,
                      Ev("connect", ble_device[c].address, <<>>, "-", o))]
        /\ n_connect' = [n_connect EXCEPT ![c] = @ + 1]
        /\ IF o = "ok"
           THEN /\ client_open' = [client_open EXCEPT ![c] = TRUE]
                /\ n_connect_ok' = [n_connect_ok EXCEPT ![c] = @ + 1]
                /\ pc' = [pc EXCEPT ![c] = "arm"]
                /\ UNCHANGED result
           ELSE /\ pc' = [pc EXCEPT ![c] = PcAfterRaise(c, o)]
                /\ result' = [result EXCEPT ![c] = ResultAfterRaise(c, o)]
                /\ UNCHANGED <<client_open, n_connect_ok>>
    /\ UNCHANGED <<cliVars, coverVars>>
    /\ UNCHANGED <<coordVars, discoveries, frameVars, exc, n_resolve, n_cmd_ok,
                   n_disconnect_err,
                   n_cooldown, healed>>

\* write INIT_PAYLOAD, then build the command frame
WriteInit(c) ==
    /\ pc[c] = "arm"
    /\ \E o \in Outcomes :
        /\ log' = [log EXCEPT ![c] = Append(@,
                      Ev("write", INIT_CHAR_UUID, INIT_PAYLOAD, "default", o))]
        /\ IF o # "ok"
           THEN /\ exc' = [exc EXCEPT ![c] = o]
                /\ pc' = [pc EXCEPT ![c] = "disconnect"]
           ELSE IF CommandBuilds(action[c], channel[c])
           THEN /\ pc' = [pc EXCEPT ![c] = "cmd_ack"]
                /\ UNCHANGED exc
           ELSE /\ exc' = [exc EXCEPT ![c] = "ValueError"]
                /\ pc' = [pc EXCEPT ![c] = "disconnect"]
    /\ UNCHANGED <<cliVars, coverVars>>
    /\ UNCHANGED <<coordVars, discoveries, frameVars, client_open, result,
                   n_resolve, n_connect, n_connect_ok, n_cmd_ok, n_disconnect_err,
                   n_cooldown, healed>>

\* write the command frame with response=True
WriteCommand(c) ==
    /\ pc[c] = "cmd_ack"
    /\ \E o \in Outcomes :
        /\ log' = [log EXCEPT ![c] = Append(@,
                      Ev("write", COMMAND_CHAR_UUID,
                         Command(action[c], channel[c]), "True", o))]
        /\ IF o = "ok"
           THEN /\ pc' = [pc EXCEPT ![c] = AfterCommandWritten]
                /\ n_cmd_ok' = [n_cmd_ok EXCEPT ![c] = @ + 1]
                /\ UNCHANGED exc
           ELSE IF FallsBack(o)
           THEN /\ pc' = [pc EXCEPT ![c] = "cmd_noack"]
                /\ UNCHANGED <<exc, n_cmd_ok>>
           ELSE /\ exc' = [exc EXCEPT ![c] = o]
                /\ pc' = [pc EXCEPT ![c] = "disconnect"]
                /\ UNCHANGED n_cmd_ok
    /\ UNCHANGED <<cliVars, coverVars>>
    /\ UNCHANGED <<coordVars, discoveries, frameVars, client_open, result,
                   n_resolve, n_connect, n_connect_ok, n_disconnect_err,
                   n_cooldown, healed>>

\* the fallback: the same frame with response=False
WriteCommandFallback(c) ==
    /\ pc[c] = "cmd_noack"
    /\ \E o \in Outcomes :
        /\ log' = [log EXCEPT ![c] = Append(@,
                      Ev("write", COMMAND_CHAR_UUID,
                         Command(action[c], channel[c]), "False", o))]
        /\ IF o = "ok"
           THEN /\ pc' = [pc EXCEPT ![c] = AfterCommandWritten]
                /\ n_cmd_ok' = [n_cmd_ok EXCEPT ![c] = @ + 1]
                /\ UNCHANGED exc
           ELSE /\ exc' = [exc EXCEPT ![c] = o]
                /\ pc' = [pc EXCEPT ![c] = "disconnect"]
                /\ UNCHANGED n_cmd_ok
    /\ UNCHANGED <<cliVars, coverVars>>
    /\ UNCHANGED <<coordVars, discoveries, frameVars, client_open, result,
                   n_resolve, n_connect, n_connect_ok, n_disconnect_err,
                   n_cooldown, healed>>

\* asyncio.sleep(COMMAND_DELAY), then return True leaves the context
Settle(c) ==
    /\ pc[c] = "settle"
    /\ log' = [log EXCEPT ![c] = Append(@,
                  Ev("sleep", "-", <<COMMAND_DELAY>>, "-", "ok"))]
    /\ pc' = [pc EXCEPT ![c] = "disconnect"]
    /\ UNCHANGED <<cliVars, coverVars>>
    /\ UNCHANGED <<coordVars, discoveries, frameVars, client_open, exc, result,
                   n_resolve, n_connect, n_connect_ok, n_cmd_ok, n_disconnect_err,
                   n_cooldown, healed>>

\* BleakClient.__aexit__ disconnects on the way out, by return or by
\* exception; an exception raised by disconnect replaces the one in flight.
\* The connected interval of the caller ends with this call.
Disconnect(c) ==
    /\ pc[c] = "disconnect"
    /\ \E o \in Outcomes :
        LET e == IF o # "ok" THEN o ELSE exc[c]
        IN /\ log' = [log EXCEPT ![c] = Append(@,
                         Ev("disconnect", ble_device[c].address, <<>>, "-", o))]
           /\ n_disconnect_err' = [n_disconnect_err EXCEPT ![c] =
                                      IF o = "ok" THEN @ ELSE @ + 1]
           /\ client_open' = [client_open EXCEPT ![c] = OpenAfterExit(c)]
           /\ exc' = [exc EXCEPT ![c] = "none"]
           /\ IF e = "none"
              THEN /\ pc' = [pc EXCEPT ![c] = PcAfterSuccess(c)]
                   /\ result' = [result EXCEPT ![c] = "True"]
              ELSE /\ pc' = [pc EXCEPT ![c] = PcAfterRaise(c, e)]
                   /\ result' = [result EXCEPT ![c] = ResultAfterRaise(c, e)]
    /\ UNCHANGED <<cliVars, coverVars>>
    /\ UNCHANGED <<coordVars, discoveries, frameVars, n_resolve, n_connect,
                   n_connect_ok, n_cmd_ok, n_cooldown, healed>>

\* asyncio.sleep(1.0) in the except clause, then the next loop iteration
Cooldown(c) ==
    /\ pc[c] = "cooldown"
    /\ attempt' = [attempt EXCEPT ![c] = @ + 1]
    /\ n_cooldown' = [n_cooldown EXCEPT ![c] = @ + 1]
    /\ pc' = [pc EXCEPT ![c] = "resolve"]
    /\ UNCHANGED <<cliVars, coverVars>>
    /\ UNCHANGED <<coordVars, discoveries, action, channel, retry_count,
                   ble_device, client_open, exc, result, log, n_resolve,
                   n_connect, n_connect_ok, n_cmd_ok, n_disconnect_err, healed>>

\* a lock taken with acquire() and released only on the paths that return
LockedAfterExit_kept_on_raise(c) == result[c] \notin {"True", "False"}

\* async with self._lock: __aexit__ releases the lock however the body ends
LockedAfterExit(c) == FALSE

\* the call leaves "async with self._lock" (return True, return False or an
\* exception passing through): the lock is released, the frame is gone and
\* the spy starts afresh
SendCommandExit(c) ==
    /\ pc[c] = "ret"
    /\ lock' = [lock EXCEPT !.locked = LockedAfterExit(c)]
    /\ pc' = [pc EXCEPT ![c] = "done"]
    /\ action' = [action EXCEPT ![c] = 0]
    /\ channel' = [channel EXCEPT ![c] = 0]
    /\ retry_count' = [retry_count EXCEPT ![c] = 0]
    /\ attempt' = [attempt EXCEPT ![c] = 0]
    /\ ble_device' = [ble_device EXCEPT ![c] = NoDevice]
    /\ log' = [log EXCEPT ![c] = <<>>]
    /\ n_resolve' = [n_resolve EXCEPT ![c] = 0]
    /\ n_connect' = [n_connect EXCEPT ![c] = 0]
    /\ n_connect_ok' = [n_connect_ok EXCEPT ![c] = 0]
    /\ n_cmd_ok' = [n_cmd_ok EXCEPT ![c] = 0]
    /\ n_disconnect_err' = [n_disconnect_err EXCEPT ![c] = 0]
    /\ n_cooldown' = [n_cooldown EXCEPT ![c] = 0]
    /\ UNCHANGED cliVars
    /\ UNCHANGED <<address, discoveries, client_open, exc, result, healed>>

\* a connection opened without a context manager: nothing closes it when
\* the task is cancelled
PcAfterCancel_no_exit(p) == "ret"

\* where CancelledError, raised at the await the task is suspended in,
\* takes the call: inside the with-block of _send_command_once it runs
\* BleakClient.__aexit__ first; in connect, in the disconnect of __aexit__
\* and in the cooldown sleep it leaves async_send_command directly (no
\* except clause catches it)
PcAfterCancel(p) ==
    IF p \in {"arm", "cmd_ack", "cmd_noack", "settle"} THEN "disconnect"
    ELSE "ret"

\* the adapter call or sleep a task at position p is suspended in
Awaited(c, p) ==
    IF p = "connect" THEN Ev("connect", ble_device[c].address, <<>>, "-",
                             "CancelledError")
    ELSE IF p = "arm" THEN Ev("write", INIT_CHAR_UUID, INIT_PAYLOAD,
                              "default", "CancelledError")
    ELSE IF p = "cmd_ack" THEN Ev("write", COMMAND_CHAR_UUID,
                                  Command(action[c], channel[c]), "True",
                                  "CancelledError")
    ELSE IF p = "cmd_noack" THEN Ev("write", COMMAND_CHAR_UUID,
                                    Command(action[c], channel[c]), "False",
                                    "CancelledError")
    ELSE IF p = "settle" THEN Ev("sleep", "-", <<COMMAND_DELAY>>, "-",
                                 "CancelledError")
    ELSE IF p = "disconnect" THEN Ev("disconnect", ble_device[c].address,
                                     <<>>, "-", "CancelledError")
    ELSE Ev("sleep", "-", <<RETRY_COOLDOWN>>, "-", "CancelledError")

\* the caller cancels the task while it is suspended inside
\* async_send_command. A disconnect that is cancelled has been issued: the
\* connected interval ends with it, as it does when disconnect raises. A
\* task cancelled while it waits for the lock leaves the queue and the call
\* without ever holding the lock.
Cancel(c) ==
    /\ pc[c] \in {"waiting", "connect", "arm", "cmd_ack", "cmd_noack",
                  "settle", "disconnect", "cooldown"}
    /\ IF pc[c] = "waiting"
       THEN /\ lock' = [lock EXCEPT !.waiters =
                            SelectSeq(@, LAMBDA w : w # c)]
            /\ pc' = [pc EXCEPT ![c] = "done"]
            /\ result' = [result EXCEPT ![c] = "CancelledError"]
            /\ action' = [action EXCEPT ![c] = 0]
            /\ channel' = [channel EXCEPT ![c] = 0]
            /\ retry_count' = [retry_count EXCEPT ![c] = 0]
            /\ cover_cmd' = [cover_cmd EXCEPT ![c] = "none"]
            /\ UNCHANGED <<log, exc, client_open>>
       ELSE /\ log' = [log EXCEPT ![c] = Append(@, Awaited(c, pc[c]))]
            /\ pc' = [pc EXCEPT ![c] = PcAfterCancel(pc[c])]
            /\ IF PcAfterCancel(pc[c]) = "disconnect"
               THEN /\ exc' = [exc EXCEPT ![c] = "CancelledError"]
                    /\ UNCHANGED <<result, client_open>>
               ELSE /\ exc' = [exc EXCEPT ![c] = "none"]
                    /\ result' = [result EXCEPT ![c] = "CancelledError"]
                    /\ client_open' = [client_open EXCEPT ![c] =
                                          IF pc[c] = "disconnect"
                                          THEN OpenAfterExit(c) ELSE @]
            /\ UNCHANGED <<lock, action, channel, retry_count, cover_cmd>>
    /\ UNCHANGED <<cliVars, cover_added, is_opening, is_closing,
                   current_cover_position, is_closed, available>>
    /\ UNCHANGED <<address, discoveries, attempt, ble_device, n_resolve,
                   n_connect, n_connect_ok, n_cmd_ok, n_disconnect_err,
                   n_cooldown, healed>>

\* a call made by anything but the cover entity returns to its caller
Return(c) ==
    /\ cover_cmd[c] = "none"
    /\ SendCommandExit(c)
    /\ UNCHANGED coverVars

\* the set of connectable devices the host sees changes (the remote rotates
\* its address, goes out of range, comes back)
Advertise ==
    /\ discoveries' \in Worlds \ {discoveries}
    /\ UNCHANGED <<cliVars, coverVars>>
    /\ UNCHANGED <<coordVars, pc, frameVars, client_open, exc, result, spyVars>>

\* async_test_connection is called: no lock is taken; the task looks the
\* stored address up, falls back to _find_device_by_name (which stores the
\* address it finds), returns False when both fail and otherwise goes on to
\* enter the BleakClient context
async_test_connection(c) ==
    /\ pc[c] \in {"idle", "done"}
    /\ LET by_addr == async_ble_device_from_address(address)
           by_name == IF by_addr = NoDevice THEN find_device_by_name
                      ELSE NoDevice
           dev == IF by_addr # NoDevice THEN by_addr ELSE by_name
           how == IF by_addr # NoDevice THEN "address"
                  ELSE IF by_name # NoDevice THEN "name" ELSE "none"
       IN /\ address' = AddressAfterResolve(by_name)
          /\ healed' = IF by_name # NoDevice THEN by_name.address ELSE healed
          /\ ble_device' = [ble_device EXCEPT ![c] = dev]
          /\ log' = [log EXCEPT ![c] =
                        <<Ev("resolve", address, <<>>, how,
                             IF dev # NoDevice THEN "ok" ELSE "NotFound")>>]
          /\ IF dev # NoDevice
             THEN /\ pc' = [pc EXCEPT ![c] = "t_connect"]
                  /\ result' = [result EXCEPT ![c] = "none"]
             ELSE /\ pc' = [pc EXCEPT ![c] = "t_ret"]
                  /\ result' = [result EXCEPT ![c] = "False"]
    /\ UNCHANGED <<cliVars, coverVars>>
    /\ UNCHANGED <<lock, discoveries, action, channel, retry_count, attempt,
                   client_open, exc, n_resolve, n_connect, n_connect_ok,
                   n_cmd_ok, n_disconnect_err, n_cooldown>>

\* what async_test_connection gives its caller when exception e leaves the
\* with-block: except BleakError returns False, anything else passes
TestResult(e) ==
    IF e = "none" THEN "True" ELSE IF e = "BleakError" THEN "False" ELSE e

\* async with BleakClient(ble_device) in async_test_connection: __aenter__
\* connects
TestConnect(c) ==
    /\ pc[c] = "t_connect"
    /\ \E o \in Outcomes :
        /\ log' = [log EXCEPT ![c] = Append(@,
                      Ev("connect", ble_device[c].address, <<>>, "-", o))]
        /\ IF o = "ok"
           THEN /\ client_open' = [client_open EXCEPT ![c] = TRUE]
                /\ pc' = [pc EXCEPT ![c] = "t_arm"]
                /\ UNCHANGED result
           ELSE /\ pc' = [pc EXCEPT ![c] = "t_ret"]
                /\ result' = [result EXCEPT ![c] = TestResult(o)]
                /\ UNCHANGED client_open
    /\ UNCHANGED <<cliVars, coverVars>>
    /\ UNCHANGED <<coordVars, discoveries, frameVars, exc, n_resolve,
                   n_connect, n_connect_ok, n_cmd_ok, n_disconnect_err,
                   n_cooldown, healed>>

\* write INIT_PAYLOAD, then return True leaves the context
TestWriteInit(c) ==
    /\ pc[c] = "t_arm"
    /\ \E o \in Outcomes :
        /\ log' = [log EXCEPT ![c] = Append(@,
                      Ev("write", INIT_CHAR_UUID, INIT_PAYLOAD, "default", o))]
        /\ exc' = [exc EXCEPT ![c] = IF o = "ok" THEN "none" ELSE o]
        /\ pc' = [pc EXCEPT ![c] = "t_disconnect"]
    /\ UNCHANGED <<cliVars, coverVars>>
    /\ UNCHANGED <<coordVars, discoveries, frameVars, client_open, result,
                   n_resolve, n_connect, n_connect_ok, n_cmd_ok,
                   n_disconnect_err, n_cooldown, healed>>

\* BleakClient.__aexit__ disconnects; an exception raised by disconnect
\* replaces the one in flight (or the return value)
TestDisconnect(c) ==
    /\ pc[c] = "t_disconnect"
    /\ \E o \in Outcomes :
        LET e == IF o # "ok" THEN o ELSE exc[c]
        IN /\ log' = [log EXCEPT ![c] = Append(@,
                         Ev("disconnect", ble_device[c].address, <<>>, "-", o))]
           /\ client_open' = [client_open EXCEPT ![c] = OpenAfterExit(c)]
           /\ exc' = [exc EXCEPT ![c] = "none"]
           /\ result' = [result EXCEPT ![c] = TestResult(e)]
           /\ pc' = [pc EXCEPT ![c] = "t_ret"]
    /\ UNCHANGED <<cliVars, coverVars>>
    /\ UNCHANGED <<coordVars, discoveries, frameVars, n_resolve, n_connect,
                   n_connect_ok, n_cmd_ok, n_disconnect_err, n_cooldown, healed>>

\* async_test_connection gives its result (or its exception) to the caller
TestReturn(c) ==
    /\ pc[c] = "t_ret"
    /\ pc' = [pc EXCEPT ![c] = "done"]
    /\ ble_device' = [ble_device EXCEPT ![c] = NoDevice]
    /\ log' = [log EXCEPT ![c] = <<>>]
    /\ UNCHANGED <<cliVars, coverVars>>
    /\ UNCHANGED <<coordVars, discoveries, action, channel, retry_count,
                   attempt, client_open, exc, result, n_resolve, n_connect,
                   n_connect_ok, n_cmd_ok, n_disconnect_err, n_cooldown,
                   healed>>

\* ------------------------------------------------- the cover entity
\* async_added_to_hass: the position of the last state, when there is one,
\* is restored before any command can arrive
async_added_to_hass(position) ==
    /\ ~cover_added
    /\ cover_added' = TRUE
    /\ IF position # NoPosition
       THEN /\ current_cover_position' = position
            /\ is_closed' = IF position = 0 THEN "True" ELSE "False"
       ELSE UNCHANGED <<current_cover_position, is_closed>>
    /\ UNCHANGED <<haVars, cliVars, discoveries, cover_cmd, is_opening,
                   is_closing, available>>

\* a handler that sets its own flag and leaves the opposite one alone
OppositeFlagAtStart_kept(flag) == flag

\* what open and close store in the opposite motion flag before the command
\* is sent
OppositeFlagAtStart(flag) == FALSE

\* async_open_cover up to the first suspension inside async_send_command
async_open_cover(c) ==
    /\ cover_added
    /\ is_opening' = TRUE
    /\ is_closing' = OppositeFlagAtStart(is_closing)
    /\ cover_cmd' = [cover_cmd EXCEPT ![c] = "open"]
    /\ SendCommandEntry(c, Action.OPEN, COVER_CHANNEL, DEFAULT_RETRY_COUNT)
    /\ UNCHANGED <<cover_added, current_cover_position, is_closed, available>>

\* async_close_cover up to the first suspension inside async_send_command
async_close_cover(c) ==
    /\ cover_added
    /\ is_closing' = TRUE
    /\ is_opening' = OppositeFlagAtStart(is_opening)
    /\ cover_cmd' = [cover_cmd EXCEPT ![c] = "close"]
    /\ SendCommandEntry(c, Action.CLOSE, COVER_CHANNEL, DEFAULT_RETRY_COUNT)
    /\ UNCHANGED <<cover_added, current_cover_position, is_closed, available>>

\* async_stop_cover up to the first suspension inside async_send_command
async_stop_cover(c) ==
    /\ cover_added
    /\ is_opening' = FALSE
    /\ is_closing' = FALSE
    /\ cover_cmd' = [cover_cmd EXCEPT ![c] = "stop"]
    /\ SendCommandEntry(c, Action.STOP, COVER_CHANNEL, DEFAULT_RETRY_COUNT)
    /\ UNCHANGED <<cover_added, current_cover_position, is_closed, available>>

\* async_set_cover_position: open from 50 up, close below
async_set_cover_position(c, position) ==
    IF position >= 50 THEN async_open_cover(c) ELSE async_close_cover(c)

\* a handler that stores the opposite end position
PositionAfterSuccess_inverted(cmd) ==
    IF cmd = "open" THEN 0
    ELSE IF cmd = "close" THEN 100 ELSE current_cover_position

\* the position a handler stores when its command succeeded
PositionAfterSuccess(cmd) ==
    IF cmd = "open" THEN 100
    ELSE IF cmd = "close" THEN 0 ELSE current_cover_position

\* async_send_command returns into the cover handler, which runs to its
\* end: the motion flag of the handler is cleared and the outcome stored;
\* an exception from async_send_command skips the rest of the handler
CoverReturn(c) ==
    /\ cover_cmd[c] # "none"
    /\ SendCommandExit(c)
    /\ cover_cmd' = [cover_cmd EXCEPT ![c] = "none"]
    /\ IF result[c] \in {"True", "False"}
       THEN LET success == result[c] = "True"
                cmd == cover_cmd[c]
            IN /\ is_opening' = IF cmd = "open" THEN FALSE ELSE is_opening
               /\ is_closing' = IF cmd = "close" THEN FALSE ELSE is_closing
               /\ available' = success
               /\ IF success /\ cmd \in {"open", "close"}
                  THEN /\ current_cover_position' = PositionAfterSuccess(cmd)
                       /\ is_closed' = IF cmd = "close" THEN "True"
                                       ELSE "False"
                  ELSE UNCHANGED <<current_cover_position, is_closed>>
       ELSE UNCHANGED <<is_opening, is_closing, available,
                        current_cover_position, is_closed>>
    /\ UNCHANGED cover_added

\* ------------------------------------------- the standalone client (CLI)
\* the filter of LevolorRemote.find_device
cli_IsLevolor(d) == Truthy(d.name) /\ Contains(d.name, cli_LEVOLOR_DEVICE_NAME)

\* BleakScanner.find_device_by_filter: the first device that passes
cli_find_device ==
    IF \E i \in 1..Len(discoveries) : cli_IsLevolor(discoveries[i])
    THEN LET i == CHOOSE j \in 1..Len(discoveries) :
                      /\ cli_IsLevolor(discoveries[j])
                      /\ \A k \in 1..(j - 1) : ~cli_IsLevolor(discoveries[k])
         IN discoveries[i]
    ELSE NoDevice

\* bytes([CMD_PREFIX, action, channel]) in LevolorRemote.send_command
cli_Command(a, ch) == <<cli_CMD_PREFIX, a, ch>>

\* main() with a command other than scan: LevolorRemote(address), then
\* connect() up to BleakClient.connect; without --address the first Levolor
\* device found is used, and main returns when there is none
cli_main(a, ch, addr) ==
    /\ cli_pc \in {"idle", "done"}
    /\ cli_action' = a
    /\ cli_channel' = ch
    /\ cli_connected' = FALSE
    /\ IF addr # "None"
       THEN /\ cli_address' = addr
            /\ cli_log' = <<>>
            /\ cli_result' = "none"
            /\ cli_pc' = "connect"
       ELSE LET device == cli_find_device
            IN /\ cli_log' = <<Ev("resolve", "None", <<>>, "name",
                                  IF device # NoDevice THEN "ok"
                                  ELSE "NotFound")>>
               /\ IF device # NoDevice
                  THEN /\ cli_address' = device.address
                       /\ cli_result' = "none"
                       /\ cli_pc' = "connect"
                  ELSE /\ cli_address' = "None"
                       /\ cli_result' = "False"
                       /\ cli_pc' = "done"
    /\ UNCHANGED <<haVars, coverVars, discoveries>>

\* await self.client.connect() and the is_connected test after it
cli_connect ==
    /\ cli_pc = "connect"
    /\ \E o \in Outcomes \cup {"not_connected"} :
        /\ cli_log' = Append(cli_log, Ev("connect", cli_address, <<>>, "-", o))
        /\ IF o = "ok"
           THEN /\ cli_connected' = TRUE
                /\ cli_pc' = "init"
                /\ UNCHANGED cli_result
           ELSE /\ cli_result' = IF o \in {"not_connected", "BleakError"}
                                 THEN "False" ELSE o
                /\ cli_pc' = "done"
                /\ UNCHANGED cli_connected
    /\ UNCHANGED <<haVars, coverVars, discoveries, cli_address, cli_action, cli_channel>>

\* the init write of connect(): an exception it raises is logged and
\* dropped, connect() returns True; main() goes on to send_command, which
\* returns False for a channel outside 1..6 and otherwise builds the frame
cli_write_init ==
    /\ cli_pc = "init"
    /\ \E o \in Outcomes :
        cli_log' = Append(cli_log, Ev("write", cli_INIT_CHAR_UUID,
                                      cli_INIT_PAYLOAD, "default", o))
    /\ IF cli_channel < 1 \/ cli_channel > 6
       THEN /\ cli_result' = "False"
            /\ cli_pc' = "disconnect"
       ELSE /\ cli_pc' = "cmd_ack"
            /\ UNCHANGED cli_result
    /\ UNCHANGED <<haVars, coverVars, discoveries, cli_address, cli_action, cli_channel,
                   cli_connected>>

\* the command frame with response=True; except Exception falls back
cli_write_command ==
    /\ cli_pc = "cmd_ack"
    /\ \E o \in Outcomes :
        /\ cli_log' = Append(cli_log,
                        Ev("write", cli_COMMAND_CHAR_UUID,
                           cli_Command(cli_action, cli_channel), "True", o))
        /\ cli_pc' = IF o = "ok" THEN "settle" ELSE "cmd_noack"
    /\ UNCHANGED <<haVars, coverVars, discoveries, cli_address, cli_action, cli_channel,
                   cli_connected, cli_result>>

\* the same frame with response=False; except BleakError returns False,
\* any other exception leaves send_command
cli_write_command_fallback ==
    /\ cli_pc = "cmd_noack"
    /\ \E o \in Outcomes :
        /\ cli_log' = Append(cli_log,
                        Ev("write", cli_COMMAND_CHAR_UUID,
                           cli_Command(cli_action, cli_channel), "False", o))
        /\ IF o = "ok"
           THEN /\ cli_pc' = "settle"
                /\ UNCHANGED cli_result
           ELSE /\ cli_pc' = "disconnect"
                /\ cli_result' = IF o = "BleakError" THEN "False" ELSE o
    /\ UNCHANGED <<haVars, coverVars, discoveries, cli_address, cli_action, cli_channel,
                   cli_connected>>

\* asyncio.sleep(0.5), then return True
cli_settle ==
    /\ cli_pc = "settle"
    /\ cli_log' = Append(cli_log,
                         Ev("sleep", "-", <<cli_COMMAND_DELAY>>, "-", "ok"))
    /\ cli_result' = "True"
    /\ cli_pc' = "disconnect"
    /\ UNCHANGED <<haVars, coverVars, discoveries, cli_address, cli_action, cli_channel,
                   cli_connected>>

\* finally: await remote.disconnect(); an exception it raises is the one
\* that leaves main()
cli_disconnect ==
    /\ cli_pc = "disconnect"
    /\ \E o \in Outcomes :
        /\ cli_log' = Append(cli_log,
                             Ev("disconnect", cli_address, <<>>, "-", o))
        /\ cli_result' = IF o # "ok" THEN o ELSE cli_result
    /\ cli_connected' = FALSE
    /\ cli_pc' = "done"
    /\ UNCHANGED <<haVars, coverVars, discoveries, cli_address, cli_action, cli_channel>>

\* the standalone client, run again and again
NextCli ==
    \/ \E a \in CliActions, ch \in CliChannels, addr \in CliAddresses :
           cli_main(a, ch, addr)
    \/ cli_connect
    \/ cli_write_init
    \/ cli_write_command
    \/ cli_write_command_fallback
    \/ cli_settle
    \/ cli_disconnect
    \/ Advertise

SpecCli == Init /\ [][NextCli]_vars

\* one task calling the coordinator, again and again
Next ==
    \/ \E a \in Actions, ch \in Channels, r \in RetryCounts :
           async_send_command(Solo, a, ch, r)
    \/ Resolve(Solo)
    \/ Connect(Solo)
    \/ WriteInit(Solo)
    \/ WriteCommand(Solo)
    \/ WriteCommandFallback(Solo)
    \/ Settle(Solo)
    \/ Disconnect(Solo)
    \/ Cooldown(Solo)
    \/ Return(Solo)
    \/ Advertise

Spec == Init /\ [][Next]_vars

\* two tasks calling the same coordinator concurrently
NextDuo ==
    \/ \E c \in Pair, a \in DuoActions, ch \in DuoChannels,
          r \in DuoRetryCounts : async_send_command(c, a, ch, r)
    \/ \E c \in Pair : LockWakeup(c)
    \/ \E c \in Pair : Resolve(c)
    \/ \E c \in Pair : Connect(c)
    \/ \E c \in Pair : WriteInit(c)
    \/ \E c \in Pair : WriteCommand(c)
    \/ \E c \in Pair : WriteCommandFallback(c)
    \/ \E c \in Pair : Settle(c)
    \/ \E c \in Pair : Disconnect(c)
    \/ \E c \in Pair : Cooldown(c)
    \/ \E c \in Pair : Return(c)
    \/ Advertise

SpecDuo == Init /\ [][NextDuo]_vars

\* three tasks calling the same coordinator concurrently, so that two of
\* them can queue behind the third
NextTrio ==
    \/ \E c \in Callers, a \in DuoActions, ch \in DuoChannels,
          r \in TrioRetryCounts : async_send_command(c, a, ch, r)
    \/ \E c \in Callers : LockWakeup(c)
    \/ \E c \in Callers : Resolve(c)
    \/ \E c \in Callers : Connect(c)
    \/ \E c \in Callers : WriteInit(c)
    \/ \E c \in Callers : WriteCommand(c)
    \/ \E c \in Callers : WriteCommandFallback(c)
    \/ \E c \in Callers : Settle(c)
    \/ \E c \in Callers : Disconnect(c)
    \/ \E c \in Callers : Cooldown(c)
    \/ \E c \in Callers : Return(c)
    \/ Advertise

SpecTrio == Init /\ [][NextTrio]_vars

\* one task sending every action to every channel the configuration offers,
\* one attempt per call
NextCodec ==
    \/ \E a \in AllActions, ch \in ValidChannels :
           async_send_command(Solo, a, ch, 1)
    \/ Resolve(Solo)
    \/ Connect(Solo)
    \/ WriteInit(Solo)
    \/ WriteCommand(Solo)
    \/ WriteCommandFallback(Solo)
    \/ Settle(Solo)
    \/ Disconnect(Solo)
    \/ Return(Solo)
    \/ Advertise

SpecCodec == Init /\ [][NextCodec]_vars

\* one task sending the cover entity's commands, one after the other
NextCover ==
    \/ \E p \in RestoredPositions : async_added_to_hass(p)
    \/ async_open_cover(Solo)
    \/ async_close_cover(Solo)
    \/ async_stop_cover(Solo)
    \/ \E p \in SetPositions : async_set_cover_position(Solo, p)
    \/ Resolve(Solo)
    \/ Connect(Solo)
    \/ WriteInit(Solo)
    \/ WriteCommand(Solo)
    \/ WriteCommandFallback(Solo)
    \/ Settle(Solo)
    \/ Disconnect(Solo)
    \/ Cooldown(Solo)
    \/ CoverReturn(Solo)
    \/ Advertise

SpecCover == Init /\ [][NextCover]_vars

\* the remote, the only device around, goes out of range and comes back
\* under its stored address
NearWorlds == {<<>>, <<Dev(ADDR_A, NAME_REMOTE)>>}
RemoteComesAndGoes ==
    /\ discoveries \in NearWorlds
    /\ discoveries' \in NearWorlds \ {discoveries}
    /\ UNCHANGED <<haVars, cliVars, coverVars>>

\* two tasks sending the commands of one cover entity concurrently
NextCoverDuo ==
    \/ async_added_to_hass(NoPosition)
    \/ \E c \in Pair : async_open_cover(c)
    \/ \E c \in Pair : async_close_cover(c)
    \/ \E c \in Pair : async_stop_cover(c)
    \/ \E c \in Pair, p \in SetPositions : async_set_cover_position(c, p)
    \/ \E c \in Pair : LockWakeup(c)
    \/ \E c \in Pair : Resolve(c)
    \/ \E c \in Pair : Connect(c)
    \/ \E c \in Pair : WriteInit(c)
    \/ \E c \in Pair : WriteCommand(c)
    \/ \E c \in Pair : WriteCommandFallback(c)
    \/ \E c \in Pair : Settle(c)
    \/ \E c \in Pair : Disconnect(c)
    \/ \E c \in Pair : Cooldown(c)
    \/ \E c \in Pair : CoverReturn(c)
    \/ RemoteComesAndGoes

InitCoverDuo == Init /\ discoveries \in NearWorlds

SpecCoverDuo == InitCoverDuo /\ [][NextCoverDuo]_vars

\* two tasks calling the coordinator, each of which may be cancelled while
\* it is suspended, with the remote alone in and out of range
NextLive ==
    \/ \E c \in Pair, a \in DuoActions, ch \in DuoChannels,
          r \in TrioRetryCounts : async_send_command(c, a, ch, r)
    \/ \E c \in Pair : LockWakeup(c)
    \/ \E c \in Pair : Resolve(c)
    \/ \E c \in Pair : Connect(c)
    \/ \E c \in Pair : WriteInit(c)
    \/ \E c \in Pair : WriteCommand(c)
    \/ \E c \in Pair : WriteCommandFallback(c)
    \/ \E c \in Pair : Settle(c)
    \/ \E c \in Pair : Disconnect(c)
    \/ \E c \in Pair : Cooldown(c)
    \/ \E c \in Pair : Return(c)
    \/ \E c \in Pair : Cancel(c)
    \/ RemoteComesAndGoes

\* the next step of a task inside async_send_command: the event loop runs a
\* task that is ready, an adapter call or a sleep returns
Step(c) ==
    \/ LockWakeup(c)
    \/ Resolve(c)
    \/ Connect(c)
    \/ WriteInit(c)
    \/ WriteCommand(c)
    \/ WriteCommandFallback(c)
    \/ Settle(c)
    \/ Disconnect(c)
    \/ Cooldown(c)
    \/ Return(c)

\* every adapter call and every sleep returns and ready tasks are run;
\* nothing obliges a caller to call, to cancel, or the world to change
Progress == \A c \in Pair : WF_vars(Step(c))

InitLive == Init /\ discoveries \in NearWorlds

SpecLive == InitLive /\ [][NextLive]_vars /\ Progress

\* one task testing the connection, again and again
NextTest ==
    \/ async_test_connection(Solo)
    \/ TestConnect(Solo)
    \/ TestWriteInit(Solo)
    \/ TestDisconnect(Solo)
    \/ TestReturn(Solo)
    \/ Advertise

SpecTest == Init /\ [][NextTest]_vars

TypeOK ==
    /\ address \in {ADDR_A, ADDR_B, ADDR_C}
    /\ lock.locked \in BOOLEAN
    /\ discoveries \in Worlds
    /\ \A c \in Callers :
        /\ pc[c] \in {"idle", "waiting", "resolve", "connect", "arm",
                      "cmd_ack", "cmd_noack", "settle", "disconnect",
                      "cooldown", "ret", "done", "t_connect", "t_arm",
                      "t_disconnect", "t_ret"}
        /\ client_open[c] \in BOOLEAN

\* one task calling the coordinator, and a caller that may cancel the task
\* whenever it is suspended
NextCancel ==
    \/ \E a \in DuoActions, ch \in DuoChannels, r \in DuoRetryCounts :
           async_send_command(Solo, a, ch, r)
    \/ Resolve(Solo)
    \/ Connect(Solo)
    \/ WriteInit(Solo)
    \/ WriteCommand(Solo)
    \/ WriteCommandFallback(Solo)
    \/ Settle(Solo)
    \/ Disconnect(Solo)
    \/ Cooldown(Solo)
    \/ Return(Solo)
    \/ Cancel(Solo)
    \/ Advertise

SpecCancel == Init /\ [][NextCancel]_vars

\* two tasks on the same coordinator, each sending commands (one attempt
\* per call) or testing the connection
NextMix ==
    \/ \E c \in Pair, a \in DuoActions, ch \in DuoChannels :
           async_send_command(c, a, ch, 1)
    \/ \E c \in Pair : async_test_connection(c)
    \/ \E c \in Pair : LockWakeup(c)
    \/ \E c \in Pair : Resolve(c)
    \/ \E c \in Pair : Connect(c)
    \/ \E c \in Pair : WriteInit(c)
    \/ \E c \in Pair : WriteCommand(c)
    \/ \E c \in Pair : WriteCommandFallback(c)
    \/ \E c \in Pair : Settle(c)
    \/ \E c \in Pair : Disconnect(c)
    \/ \E c \in Pair : Return(c)
    \/ \E c \in Pair : TestConnect(c)
    \/ \E c \in Pair : TestWriteInit(c)
    \/ \E c \in Pair : TestDisconnect(c)
    \/ \E c \in Pair : TestReturn(c)
    \/ Advertise

SpecMix == Init /\ [][NextMix]_vars

\* ------------------------------------------------------------------ claims
InCall(c) == pc[c] \notin {"idle", "waiting", "done"}
AllOk(l) == \A i \in 1..Len(l) : l[i].res = "ok"
IsCmdWrite(e) == e.op = "write" /\ e.target = COMMAND_CHAR_UUID
IsInitWrite(e) == e.op = "write" /\ e.target = INIT_CHAR_UUID

\* C1: the connected intervals of two concurrent async_send_command calls
\* never overlap: at most one caller has a connection open, and no caller is
\* connecting, writing or disconnecting while another caller's connection is
\* open.
C1_MutualExclusion ==
    \A c1 \in Callers, c2 \in Callers :
        (c1 # c2 /\ client_open[c1]) =>
            /\ ~client_open[c2]
            /\ pc[c2] \notin {"connect", "arm", "cmd_ack", "cmd_noack",
                              "settle", "disconnect"}

\* a second call arrived while the first one's connection is open, and waits
C1_Witness ==
    \E c1 \in Callers, c2 \in Callers :
        /\ c1 # c2
        /\ client_open[c1]
        /\ pc[c1] = "cmd_ack"
        /\ pc[c2] = "waiting"

\* C2: when the device resolves in every attempt and every connect fails, a
\* call with retry_count = N ends after exactly N resolve steps and exactly N
\* connect calls and returns False (3 for N = 3, 1 for N = 1); no call ever
\* makes more than retry_count resolve steps.
C2_RetryBound ==
    \A c \in Callers :
        /\ InCall(c) => n_resolve[c] <= retry_count[c]
        /\ (pc[c] = "ret" /\ n_connect_ok[c] = 0 /\ n_connect[c] = n_resolve[c])
               => /\ n_resolve[c] = retry_count[c]
                  /\ n_connect[c] = retry_count[c]
                  /\ result[c] = "False"

\* three failed connects with retry_count = 3
C2_Witness ==
    \E c \in Callers :
        /\ pc[c] = "ret"
        /\ retry_count[c] = DEFAULT_RETRY_COUNT
        /\ n_connect[c] = 3
        /\ n_connect_ok[c] = 0
        /\ n_resolve[c] = 3
        /\ result[c] = "False"

\* C3: no exception reaches the caller of async_send_command: whatever the
\* adapter does, the call ends with True or False.
C3_NoExceptionEscapes ==
    \A c \in Callers : result[c] \in {"none", "True", "False"}

\* C4: a call with a channel outside 1..6 is rejected with InvalidChannel
\* before any adapter call: it never resolves, connects or writes, and its
\* caller gets InvalidChannel.
C4_InvalidChannelRejected ==
    \A c \in Callers :
        (InCall(c) /\ channel[c] \notin ValidChannels) =>
            /\ log[c] = <<>>
            /\ n_resolve[c] = 0
            /\ n_connect[c] = 0
            /\ ~client_open[c]
            /\ pc[c] = "ret" => result[c] = "InvalidChannel"

\* position of an adapter call in the order resolve, connect, arm, send,
\* settle, disconnect
Rank(e) ==
    CASE e.op = "resolve" -> 1
      [] e.op = "connect" -> 2
      [] IsInitWrite(e) -> 3
      [] IsCmdWrite(e) -> 4
      [] e.op = "sleep" -> 5
      [] e.op = "disconnect" -> 6
      [] OTHER -> 0

InOrder(l) ==
    /\ \A i \in 1..Len(l) : Rank(l[i]) > 0
    /\ l # <<>> => Rank(l[1]) = 1
    /\ \A i \in 1..Len(l), j \in 1..Len(l) :
          i < j => \/ Rank(l[i]) < Rank(l[j])
                   \/ Rank(l[i]) = 4 /\ Rank(l[j]) = 4 /\ j = i + 1

Last(l) == l[Len(l)]

\* the attempt that produced l is over: it ended at a failed resolve, at a
\* failed connect or with its disconnect
AttemptOver(l) ==
    /\ l # <<>>
    /\ \/ Last(l).op = "disconnect"
       \/ Last(l).op = "connect" /\ Last(l).res # "ok"
       \/ Last(l).op = "resolve" /\ Last(l).res # "ok"

\* C5: the adapter calls of one attempt occur in the order resolve, connect,
\* arm, send, settle, disconnect; attempt k+1 starts only after attempt k is
\* over, its connection closed; and a first attempt of OPEN on channel 1 in
\* which every adapter call succeeds is exactly: resolve, connect(device
\* address), write(init uuid, [0x88,0xFA]), write(command uuid,
\* [0xF1,0x01,0x01], response=True), sleep(300 ms), disconnect, and returns
\* True.
C5_StepOrder ==
    \A c \in Callers :
        /\ InOrder(log[c])
        /\ pc[c] = "resolve" =>
              /\ ~client_open[c]
              /\ n_resolve[c] = attempt[c]
              /\ attempt[c] > 0 => AttemptOver(log[c])
        /\ pc[c] = "cooldown" => ~client_open[c] /\ AttemptOver(log[c])
        /\ (/\ pc[c] = "ret"
            /\ attempt[c] = 0
            /\ action[c] = 1
            /\ channel[c] = 1
            /\ AllOk(log[c]))
              => /\ result[c] = "True"
                 /\ log[c][1].op = "resolve"
                 /\ SubSeq(log[c], 2, Len(log[c])) =
                      << Ev("connect", ble_device[c].address, <<>>, "-", "ok"),
                         Ev("write", "ab529101-5310-483a-b4d3-7f1eaa8134a0",
                            <<136, 250>>, "default", "ok"),
                         Ev("write", "ab529201-5310-483a-b4d3-7f1eaa8134a0",
                            <<241, 1, 1>>, "True", "ok"),
                         Ev("sleep", "-", <<300>>, "-", "ok"),
                         Ev("disconnect", ble_device[c].address, <<>>, "-",
                            "ok") >>

\* OPEN on channel 1 went through on the first attempt, device found at the
\* configured address
C5_Witness ==
    \E c \in Callers :
        /\ pc[c] = "ret"
        /\ result[c] = "True"
        /\ attempt[c] = 0
        /\ action[c] = Action.OPEN
        /\ channel[c] = 1
        /\ AllOk(log[c])
        /\ Len(log[c]) = 6
        /\ log[c][2].target = ADDR_A

\* C6: a connection opened by an attempt is closed on every way out of the
\* attempt: a caller's connection is open only between its connect and its
\* disconnect, and every attempt that connected ends with a disconnect.
C6_ConnectionClosed ==
    \A c \in Callers :
        /\ client_open[c] =>
              pc[c] \in {"arm", "cmd_ack", "cmd_noack", "settle", "disconnect"}
        /\ (/\ pc[c] \in {"cooldown", "ret"}
            /\ \E i \in 1..Len(log[c]) :
                  log[c][i].op = "connect" /\ log[c][i].res = "ok")
              => Last(log[c]).op = "disconnect"

\* an attempt in which both command writes failed has ended, closed
C6_Witness ==
    \E c \in Callers :
        /\ pc[c] = "cooldown"
        /\ ~client_open[c]
        /\ \E i \in 1..Len(log[c]) :
              /\ IsCmdWrite(log[c][i])
              /\ log[c][i].mode = "False"
              /\ log[c][i].res # "ok"
        /\ Last(log[c]).op = "disconnect"

CmdWrites(l) == {i \in 1..Len(l) : IsCmdWrite(l[i])}
CmdWrittenBefore(l, i) ==
    \E k \in 1..(i - 1) : IsCmdWrite(l[k]) /\ l[k].res = "ok"

\* C7 as claimed: every disconnect is directly preceded by the settle delay
\* (so the settle follows the last successful write), also when the arm write
\* succeeded and the command write failed.
C7_SettleBeforeEveryDisconnect ==
    \A c \in Callers :
        \A i \in 1..Len(log[c]) :
            log[c][i].op = "disconnect" =>
                i > 1 /\ log[c][i - 1].op = "sleep"

\* C7, amended: a disconnect that follows a successful command-frame write
\* is directly preceded by the 300 ms settle delay, which directly follows
\* that write; a connection on which no command write succeeded is closed
\* with no settle delay, also when the arm write succeeded.
C7_SettleAfterCommandWrite ==
    \A c \in Callers :
        \A i \in 1..Len(log[c]) :
            /\ log[c][i].op = "disconnect" =>
                  IF CmdWrittenBefore(log[c], i)
                  THEN /\ log[c][i - 1] = Ev("sleep", "-", <<300>>, "-", "ok")
                       /\ IsCmdWrite(log[c][i - 2])
                       /\ log[c][i - 2].res = "ok"
                  ELSE \A k \in 1..i : log[c][k].op # "sleep"
            /\ log[c][i].op = "sleep" =>
                  /\ pc[c] = "disconnect" \/ i < Len(log[c])
                  /\ i < Len(log[c]) => log[c][i + 1].op = "disconnect"

\* the fallback write went through, the settle delay ran, then the disconnect
C7_Witness ==
    \E c \in Callers :
        /\ Len(log[c]) = 7
        /\ log[c][5].mode = "False"
        /\ log[c][5].res = "ok"
        /\ log[c][6].op = "sleep"
        /\ log[c][7].op = "disconnect"

\* what holds of the command writes of any attempt: at most two, the first
\* with response=True, the second directly after it with response=False
\* and the same frame, and only after the first one failed
TwoWritesAtMost(l) ==
    LET W == CmdWrites(l)
    IN /\ Cardinality(W) <= 2
       /\ \A i \in W :
             IF \E k \in W : k < i
             THEN /\ l[i].mode = "False"
                  /\ IsCmdWrite(l[i - 1])
                  /\ l[i - 1].res # "ok"
                  /\ l[i].data = l[i - 1].data
             ELSE l[i].mode = "True"
       \* a failed fallback write is the last write
       /\ \A i \in W : (l[i].mode = "False" /\ l[i].res # "ok") =>
             \A k \in (i + 1)..Len(l) : l[k].op \notin {"write", "sleep"}

AckWriteFailed(l, errs) ==
    \E i \in CmdWrites(l) : l[i].mode = "True" /\ l[i].res \in errs
OthersOk(l) ==
    \A i \in 1..Len(l) :
        (IsCmdWrite(l[i]) /\ l[i].mode = "True") \/ l[i].res = "ok"
AttemptEnded(c) == pc[c] \in {"cooldown", "ret"}

ResolveStep(c) == pc[c] = "resolve" /\ pc'[c] # "resolve"

\* C9: when the stored address no longer resolves and discovery holds a
\* device whose name contains "Levolor", the resolve step stores that
\* device's (new) address in coordinator.address and goes on to connect to
\* it, so that the next lookup by address finds it; and a later delivery that
\* resolves by the updated address, with every adapter call succeeding,
\* returns True.
C9_SelfHealing ==
    /\ [][\A c \in Callers :
            (/\ ResolveStep(c)
             /\ async_ble_device_from_address(address) = NoDevice
             /\ \E i \in 1..Len(discoveries) : IsLevolor(discoveries[i]))
               => /\ address' # address
                  /\ address' = find_device_by_name.address
                  /\ Contains(find_device_by_name.name,
                              <<"L", "e", "v", "o", "l", "o", "r">>)
                  /\ healed' = address'
                  /\ pc'[c] = "connect"
                  /\ ble_device'[c] = find_device_by_name
                  /\ (async_ble_device_from_address(address))' # NoDevice
          ]_vars
    /\ [](\A c \in Callers :
            (/\ pc[c] = "ret"
             /\ channel[c] \in ValidChannels
             /\ log[c][1].mode = "address"
             /\ log[c][1].target = healed
             /\ AllOk(log[c]))
               => /\ result[c] = "True"
                  /\ log[c][2] = Ev("connect", healed, <<>>, "-", "ok"))

\* after the address was healed to 11:22:33:44:55:66, a delivery resolved by
\* that address and returned True
C9_Witness ==
    \E c \in Callers :
        /\ pc[c] = "ret"
        /\ result[c] = "True"
        /\ healed = ADDR_B
        /\ address = ADDR_B
        /\ log[c][1].mode = "address"
        /\ log[c][1].target = ADDR_B
        /\ AllOk(log[c])

\* C10 as claimed: once an attempt succeeds the call is at its return, with
\* no further step, and a call makes at most one successful command-frame
\* write.
C10_AtMostOneCommandWrite ==
    \A c \in Callers :
        /\ result[c] = "True" => pc[c] \in {"ret", "done"}
        /\ n_cmd_ok[c] <= 1

\* C10, amended: once an attempt succeeds the call is at its return, with no
\* further attempt, connect, write or cooldown; the successful attempt is
\* the last one and holds exactly one successful command-frame write; a call
\* makes at most one successful command-frame write per attempt, and more
\* than one per call only when the disconnect of an earlier attempt raised
\* after the write, which makes that attempt fail and be retried.
C10_ReturnsOnSuccess ==
    \A c \in Callers :
        /\ result[c] = "True" => pc[c] \in {"ret", "done"}
        /\ (pc[c] = "ret" /\ result[c] = "True") =>
              /\ n_resolve[c] = attempt[c] + 1
              /\ Last(log[c]) =
                    Ev("disconnect", ble_device[c].address, <<>>, "-", "ok")
              /\ Cardinality({i \in CmdWrites(log[c]) :
                                 log[c][i].res = "ok"}) = 1
        /\ n_cmd_ok[c] <= n_resolve[c]
        /\ n_cmd_ok[c] <= n_disconnect_err[c] + 1

\* a call returns True from its second attempt, after a first attempt whose
\* command write went through and whose disconnect raised
C10_Witness ==
    \E c \in Callers :
        /\ pc[c] = "ret"
        /\ result[c] = "True"
        /\ attempt[c] = 1
        /\ n_cmd_ok[c] = 2
        /\ n_disconnect_err[c] = 1

\* C11: a call whose attempts all fail sleeps the cooldown once between each
\* two consecutive attempts and never after the last one: when a call with
\* retry_count = N ends without success it has slept exactly N - 1
\* cooldowns, and at every moment of the call the cooldowns slept so far
\* are one fewer than the attempts started (as many, just before the next
\* attempt starts)
C11_CooldownBetweenAttempts ==
    \A c \in Callers :
        /\ InCall(c) => n_cooldown[c] = IF pc[c] = "resolve" THEN n_resolve[c]
                                       ELSE n_resolve[c] - 1
        /\ (pc[c] = "ret" /\ result[c] # "True")
               => n_cooldown[c] = retry_count[c] - 1

\* C12: a device that cannot be resolved is retried like any other failed
\* attempt: a call with retry_count = N in which no resolution ever finds a
\* device has resolved afresh in each of its N iterations when it ends, and
\* ends with False
C12_UnreachableRetried ==
    \A c \in Callers :
        (pc[c] = "ret" /\ n_connect[c] = 0)
            => /\ n_resolve[c] = retry_count[c]
               /\ result[c] = "False"

\* place of a queued caller in the lock's queue
Pos(c, q) == CHOOSE i \in 1..Len(q) : q[i] = c
Queued(c) == pc[c] = "waiting"

\* C13: a caller that finds the lock taken waits until the holder's whole
\* retry sequence is over: no attempt of one caller starts while another
\* caller is anywhere between its first attempt and its return, cooldowns
\* included. Waiting callers are served first come, first served: a caller
\* that starts waiting is queued behind those already waiting, and the caller
\* that stops waiting is the one that waited longest.
C13_BlocksAndServesInOrder ==
    [][\A c \in Callers :
          /\ ResolveStep(c) => \A d \in Callers \ {c} : ~InCall(d)
          /\ (~Queued(c) /\ Queued(c)')
                => \A d \in Callers \ {c} :
                       Queued(d) => /\ Queued(d)'
                                    /\ Pos(d, lock.waiters') < Pos(c, lock.waiters')
          /\ (Queued(c) /\ ~Queued(c)')
                => /\ \A d \in Callers \ {c} : ~InCall(d)
                   /\ \A d \in Callers \ {c} :
                         Queued(d) => Pos(c, lock.waiters) < Pos(d, lock.waiters)
      ]_vars

\* the holder sleeps between its first and its second attempt while two
\* other callers wait, t3 ahead of t2
C13_Witness ==
    /\ pc["t1"] = "cooldown"
    /\ n_resolve["t1"] = 1
    /\ lock.waiters = <<"t3", "t2">>

InTest(c) == pc[c] \in {"t_connect", "t_arm", "t_disconnect", "t_ret"}
Reached(l, i, op) == Len(l) >= i /\ l[i].op = op /\ l[i].res = "ok"

\* C14: async_test_connection only resolves, connects and writes the init
\* frame (and closes the connection): it never writes to the command
\* characteristic, and whatever the adapter does it gives its caller True or
\* False, True exactly when the device resolved, the connection opened and
\* the init write succeeded
C14_TestReportsBoolean ==
    \A c \in Callers :
        InTest(c) =>
            /\ \A i \in 1..Len(log[c]) :
                   /\ ~IsCmdWrite(log[c][i])
                   /\ \/ log[c][i].op \in {"resolve", "connect", "disconnect"}
                      \/ IsInitWrite(log[c][i])
            /\ pc[c] = "t_ret" =>
                   /\ result[c] \in {"True", "False"}
                   /\ result[c] = "True" <=>
                          /\ Reached(log[c], 1, "resolve")
                          /\ Reached(log[c], 2, "connect")
                          /\ Reached(log[c], 3, "write")

\* C15: for each of the six action codes and each channel 1..6 the command
\* frame is the three bytes 0xF1, action, channel: every command write of a
\* call carries exactly these bytes for the call's action and channel, and
\* the builder of the coordinator and the builder of the standalone client
\* give that same frame for the same action and channel
C15_FrameEncoding ==
    /\ \A c \in Callers : \A i \in 1..Len(log[c]) :
           IsCmdWrite(log[c][i]) =>
               /\ log[c][i].data = <<241, action[c], channel[c]>>
               /\ log[c][i].data = cli_Command(action[c], channel[c])
    /\ \A a \in AllActions, ch \in ValidChannels :
           /\ Command(a, ch) = <<241, a, ch>>
           /\ cli_Command(a, ch) = Command(a, ch)
    /\ CliActions = AllActions
    /\ \A k \in DOMAIN Action : cli_Action[k] = Action[k]

\* FAVORITE was written to channel 6 as F1 05 06
C15_Witness ==
    /\ action[Solo] = Action.FAVORITE
    /\ channel[Solo] = 6
    /\ pc[Solo] = "settle"
    /\ Last(log[Solo]) = Ev("write", COMMAND_CHAR_UUID, <<241, 5, 6>>,
                            "True", "ok")

\* the step in which the cover handler of caller c runs to its end after
\* async_send_command returned True or False
CoverCompletes(c) ==
    /\ cover_cmd[c] # "none"
    /\ cover_cmd'[c] = "none"
    /\ result[c] \in {"True", "False"}

\* C16: the cover's state comes from the command outcome only. When an open,
\* close or stop command completes, available becomes the success of that
\* command; a successful open stores position 100 and is_closed False, a
\* successful close stores position 0 and is_closed True; a failed command
\* (and a stop) leaves position and is_closed as they were. While a command
\* is in flight none of the three changes.
C16_StateFromOutcome ==
    [][\A c \in Callers :
          /\ CoverCompletes(c) =>
                /\ available' = (result[c] = "True")
                /\ (result[c] = "True" /\ cover_cmd[c] = "open")
                      => /\ current_cover_position' = 100
                         /\ is_closed' = "False"
                /\ (result[c] = "True" /\ cover_cmd[c] = "close")
                      => /\ current_cover_position' = 0
                         /\ is_closed' = "True"
                /\ (result[c] = "False" \/ cover_cmd[c] = "stop")
                      => UNCHANGED <<current_cover_position, is_closed>>
          /\ (cover_cmd[c] # "none" /\ cover_cmd'[c] # "none")
                => UNCHANGED <<current_cover_position, is_closed, available>>
      ]_vars

\* a command has just failed on a cover that was closed: the cover is
\* unavailable and still closed at position 0
C16_Witness ==
    /\ pc[Solo] = "done"
    /\ result[Solo] = "False"
    /\ ~available
    /\ ~is_opening
    /\ ~is_closing
    /\ current_cover_position = 0
    /\ is_closed = "True"

\* a command write of log l at place i has a successful init write before it
ArmedBefore(l, i) ==
    \E j \in 1..(i - 1) : IsInitWrite(l[j]) /\ l[j].res = "ok"

\* C17: a command frame is written only on a connection on which the init
\* frame was written successfully before, in the coordinator and in the
\* standalone client alike: every command write of an attempt (of a client
\* run) has a successful init write earlier in the same connection
C17_ArmedBeforeCommand ==
    /\ \A c \in Callers : \A i \in 1..Len(log[c]) :
           IsCmdWrite(log[c][i]) => ArmedBefore(log[c], i)
    /\ \A i \in 1..Len(cli_log) :
           IsCmdWrite(cli_log[i]) => ArmedBefore(cli_log, i)

\* C18: coordinator.address is written only by a resolve step whose caller
\* holds the coordinator's lock, async_test_connection's resolve included:
\* every step that changes the address is the resolve step of a caller
\* inside "async with self._lock"
C18_AddressWrittenUnderLock ==
    [][address' # address
          => /\ lock.locked
             /\ \E c \in Callers : ResolveStep(c)]_vars

\* C19: the connection to the remote belongs to one attempt at a time: with
\* async_test_connection and async_send_command (or two
\* async_test_connection calls) running concurrently on one coordinator, at
\* most one caller has a connection open in any state
C19_OneConnection ==
    Cardinality({c \in Callers : client_open[c]}) <= 1

\* C20: a call that is cancelled while suspended in connect, in the init
\* write, in a command write, in the settle sleep or in the cooldown sleep
\* does not leave a connection open: cancellation inside the BleakClient
\* context leads to the disconnect of __aexit__, a connection is open only
\* inside the context, and a call that ended with CancelledError has none
C20_CancelReleasesConnection ==
    \A c \in Callers :
        /\ exc[c] = "CancelledError" => pc[c] = "disconnect" /\ client_open[c]
        /\ client_open[c] => pc[c] \in {"arm", "cmd_ack", "cmd_noack",
                                         "settle", "disconnect"}
        /\ result[c] = "CancelledError" => ~client_open[c]

\* the call was cancelled during the acknowledged command write; the
\* connection has been closed and CancelledError is on its way to the caller
C20_Witness ==
    /\ pc[Solo] = "ret"
    /\ result[Solo] = "CancelledError"
    /\ ~client_open[Solo]
    /\ Len(log[Solo]) >= 2
    /\ Last(log[Solo]) = Ev("disconnect", ble_device[Solo].address, <<>>,
                            "-", "ok")
    /\ log[Solo][Len(log[Solo]) - 1] =
           Ev("write", COMMAND_CHAR_UUID, Command(Action.OPEN, 1), "True",
              "CancelledError")

\* the stored address is among the connectable devices
StoredAddressVisible ==
    \E i \in 1..Len(discoveries) : discoveries[i].address = address
NamedLevolor(d) == Contains(d.name, <<"L", "e", "v", "o", "l", "o", "r">>)

\* C21: coordinator.address changes only in a resolve step in which the
\* lookup by the stored address failed and a discovered device has a name
\* containing "Levolor", and its new value is the address of such a device
\* (the first one discovered). A resolve step that finds the device by the
\* stored address or finds no such device, and every connect, write,
\* settle, cooldown and disconnect step, leave it as it was.
C21_AddressFrame ==
    [][/\ address' # address
            => /\ \E c \in Callers : ResolveStep(c)
               /\ ~StoredAddressVisible
               /\ \E i \in 1..Len(discoveries) :
                     /\ NamedLevolor(discoveries[i])
                     /\ \A k \in 1..(i - 1) : ~NamedLevolor(discoveries[k])
                     /\ address' = discoveries[i].address
       /\ \A c \in Callers :
             (/\ ResolveStep(c)
              /\ \/ StoredAddressVisible
                 \/ \A i \in 1..Len(discoveries) :
                        ~NamedLevolor(discoveries[i]))
                => address' = address
       /\ \A c \in Callers :
             (pc[c] \in {"connect", "arm", "cmd_ack", "cmd_noack", "settle",
                         "cooldown", "disconnect", "ret"} /\ pc'[c] # pc[c])
                => address' = address
      ]_vars

\* a resolve step has just replaced AA:BB:CC:DD:EE:FF, which is no longer
\* visible, by the address of the Levolor device listed after a lamp
C21_Witness ==
    /\ pc[Solo] = "connect"
    /\ address = ADDR_B
    /\ log[Solo] = <<Ev("resolve", ADDR_A, <<>>, "name", "ok")>>
    /\ discoveries = <<Dev(ADDR_C, NAME_LAMP), Dev(ADDR_B, NAME_REMOTE)>>

NoCoverCommandInFlight == \A c \in Callers : cover_cmd[c] = "none"

\* C22: while no cover command (open, close, stop, set_position) is in
\* flight, is_opening and is_closing are both false: however a command
\* ends, the coordinator call ending with an exception included, the motion
\* flag it set has been cleared
C22_FlagsClearedAtEnd ==
    NoCoverCommandInFlight => (~is_opening /\ ~is_closing)

\* C23: whatever the interleaving of concurrent open, close, stop and
\* set_position calls on one cover, is_opening and is_closing are never
\* both true
C23_NeverBothMoving ==
    ~(is_opening /\ is_closing)

\* an open command is writing its frame while a close command, started
\* after it, waits for the lock: the cover shows closing, not opening
C23_Witness ==
    /\ cover_cmd["t1"] = "open"
    /\ pc["t1"] = "cmd_ack"
    /\ cover_cmd["t2"] = "close"
    /\ pc["t2"] = "waiting"
    /\ is_closing
    /\ ~is_opening

\* C24: the coordinator's lock is released on every way async_send_command
\* can end (it returns True, it returns False, an exception escapes, the
\* caller is cancelled): the lock is held only while some caller is inside
\* the locked body. Hence, as long as every adapter call and every sleep
\* returns, a caller queued on the lock eventually acquires it (or is itself
\* cancelled while it waits), and every call that was made terminates.
C24_LockReleasedAndCallsEnd ==
    /\ [](lock.locked => \E c \in Pair : InCall(c))
    /\ \A c \in Pair :
           Queued(c) ~> (InCall(c) \/ result[c] = "CancelledError")
    /\ \A c \in Pair : (Queued(c) \/ InCall(c)) ~> pc[c] = "done"

\* the holder was cancelled and has left, its lock is free again, and the
\* caller queued behind it is about to take it
C24_Witness ==
    /\ pc["t2"] = "done"
    /\ result["t2"] = "CancelledError"
    /\ client_open["t2"] = FALSE
    /\ pc["t1"] = "waiting"
    /\ lock = [locked |-> FALSE, waiters |-> <<"t1">>]

====
